---------------------------- MODULE Spec2Model ----------------------------
(***************************************************************************)
(* A model of the CHIP-8 emulator of lib/index.js: the emulator object's   *)
(* fields, its operations reset, load, start, stop, the interval callback  *)
(* installed by start, runCycle with every instruction handler, and        *)
(* setPixel.                                                               *)
(*                                                                         *)
(* JavaScript values.  Every number the emulator computes is an integer    *)
(* far below 2^31 in magnitude.  The two non-numbers it can produce,       *)
(* undefined (a read outside an array) and NaN (arithmetic on undefined),  *)
(* are encoded as two integers outside that range, and every operator of   *)
(* the model that stands for a JavaScript operator treats them as          *)
(* JavaScript does.                                                        *)
(***************************************************************************)
EXTENDS Integers, Sequences, FiniteSets, TLC

VARIABLES
    memory,         \* this.memory: Uint8Array(0x1000)
    stack,          \* this.stack: the defined properties of the Array
    v,              \* this.v[0..15]
    i,              \* this.i
    dt,             \* this.dt
    st,             \* this.st
    pc,             \* this.pc
    sp,             \* this.sp
    running,        \* this.running
    display,        \* this.display: the defined properties of the Array
    requestRender,  \* this.requestRender
    loop,           \* this.loop: the handle of the last setInterval, 0 before any
    timers,         \* the host's live intervals (handles not yet cleared)
    crashed,        \* an exception escaped the interval callback
    cycles,         \* history: number of runCycle invocations so far
    loads,          \* history: number of completions the loader has delivered
    lastCall,       \* history: the host's most recent call on the emulator
    last,           \* history: the most recent reset, load or cycle
    prev,           \* history: the cycle right before last, when last is a cycle
    shadow,         \* history: the CALLs not yet returned from, innermost last
    rendered        \* history: the step that led here called renderer.render

vars == <<memory, stack, v, i, dt, st, pc, sp, running, display, requestRender,
          loop, timers, crashed, cycles, loads, lastCall, last, prev, shadow,
          rendered>>

---------------------------------------------------------------------------
(* Bounds of the model. *)

MaxCycles == 6
MaxStarts == 2
MaxStartsRun == 1
MaxLoads == 1

---------------------------------------------------------------------------
(* Program constants. *)

MemSize == 4096
StackSize == 16
NumRegs == 16
displayWidth == 64
displayHeight == 32
ProgramStart == 512
FlagReg == 15

hexDigits ==
    << \HF0, \H90, \H90, \H90, \HF0,
       \H20, \H60, \H20, \H20, \H70,
       \HF0, \H10, \HF0, \H80, \HF0,
       \HF0, \H10, \HF0, \H10, \HF0,
       \H90, \H90, \HF0, \H10, \HF0,
       \HF0, \H80, \HF0, \H10, \HF0,
       \HF0, \H80, \HF0, \H90, \HF0,
       \HF0, \H10, \H20, \H40, \H40,
       \HF0, \H90, \HF0, \H90, \HF0,
       \HF0, \H90, \HF0, \H10, \HF0,
       \HF0, \H90, \HF0, \H90, \H90,
       \HE0, \H90, \HE0, \H90, \HE0,
       \HF0, \H80, \H80, \H80, \HF0,
       \HE0, \H90, \H90, \H90, \HE0,
       \HF0, \H80, \HF0, \H80, \HF0,
       \HF0, \H80, \HF0, \H80, \H80 >>

---------------------------------------------------------------------------
(* JavaScript values and operators, as far as the emulator uses them. *)

Undefined == -2000000001
NaN == -2000000002

IsNum(a) == a # Undefined /\ a # NaN

\* a + b on numbers and undefined: a non-number operand gives NaN.
JsAdd(a, b) == IF IsNum(a) /\ IsNum(b) THEN a + b ELSE NaN

JsSub(a, b) == IF IsNum(a) /\ IsNum(b) THEN a - b ELSE NaN

JsMul(a, b) == IF IsNum(a) /\ IsNum(b) THEN a * b ELSE NaN

\* a > b and a < b: false when an operand is not a number.
JsGt(a, b) == IsNum(a) /\ IsNum(b) /\ a > b

JsLt(a, b) == IsNum(a) /\ IsNum(b) /\ a < b

\* a === b: NaN equals nothing, undefined equals undefined.
JsStrictEq(a, b) == a # NaN /\ b # NaN /\ a = b

\* ToInt32, the conversion the bitwise operators apply: a non-number is 0.
ToInt32(a) == IF IsNum(a) THEN a ELSE 0

\* ToUint8, the conversion a Uint8Array store applies.
ToUint8(a) == IF IsNum(a) THEN a % 256 ELSE 0

\* +(boolean)
BoolNum(b) == IF b THEN 1 ELSE 0

RECURSIVE BitAndNat(_, _)
BitAndNat(a, b) ==
    IF a = 0 \/ b = 0 THEN 0
    ELSE (IF a % 2 = 1 /\ b % 2 = 1 THEN 1 ELSE 0) + 2 * BitAndNat(a \div 2, b \div 2)

RECURSIVE BitOrNat(_, _)
BitOrNat(a, b) ==
    IF a = 0 THEN b
    ELSE IF b = 0 THEN a
    ELSE (IF a % 2 = 1 \/ b % 2 = 1 THEN 1 ELSE 0) + 2 * BitOrNat(a \div 2, b \div 2)

RECURSIVE BitXorNat(_, _)
BitXorNat(a, b) ==
    IF a = 0 THEN b
    ELSE IF b = 0 THEN a
    ELSE (IF a % 2 # b % 2 THEN 1 ELSE 0) + 2 * BitXorNat(a \div 2, b \div 2)

\* a & b, a | b, a ^ b (every operand the emulator applies them to is >= 0).
JsAnd(a, b) == BitAndNat(ToInt32(a), ToInt32(b))

JsOr(a, b) == BitOrNat(ToInt32(a), ToInt32(b))

JsXor(a, b) == BitXorNat(ToInt32(a), ToInt32(b))

\* a << 1, a << 8, a >> 1, a >> 4, a >> 8 on operands >= 0 below 2^23.
JsShl(a, k) == ToInt32(a) * (2 ^ k)

JsShr(a, k) == ToInt32(a) \div (2 ^ k)

\* parseInt(num / den) of a fraction that is 0 or at least 1/100 (so that its
\* string has no exponent): its integer part; parseInt(NaN) is NaN.
JsParseInt(num, den) == IF IsNum(num) THEN num \div den ELSE NaN

---------------------------------------------------------------------------
(* Arrays. *)

\* this.memory[a]: a Uint8Array read; undefined outside 0..0xFFF.
MemRead(mem, a) ==
    IF IsNum(a) /\ a >= 0 /\ a < MemSize THEN mem[a] ELSE Undefined

\* this.memory[a] = b: the store converts b to a byte and ignores an index
\* outside 0..0xFFF.
MemWrite(mem, a, b) ==
    IF IsNum(a) /\ a >= 0 /\ a < MemSize
    THEN [mem EXCEPT ![a] = ToUint8(b)]
    ELSE mem

\* arr[k] of an ordinary Array (this.stack, this.display): undefined where no
\* property k exists.
ArrGet(arr, k) == IF k \in DOMAIN arr THEN arr[k] ELSE Undefined

\* arr[k] = b of an ordinary Array: creates the property if missing.
ArrSet(arr, k, b) ==
    IF k \in DOMAIN arr THEN [arr EXCEPT ![k] = b] ELSE (k :> b) @@ arr

\* The largest element of a set of indices known to lie in lo..hi, found by
\* bisection.
RECURSIVE MaxIndex(_, _, _)
MaxIndex(S, lo, hi) ==
    IF lo >= hi THEN lo
    ELSE LET mid == (lo + hi + 1) \div 2
         IN  IF S \cap (mid..hi) # {}
             THEN MaxIndex(S, mid, hi)
             ELSE MaxIndex(S, lo, mid - 1)

\* arr.length of this.display, whose indices 0..2047 always exist after the
\* constructor's reset: one more than the largest index (an index is a number
\* >= 0, and every index the emulator computes is below 2^24).
ArrLength(arr) ==
    MaxIndex(DOMAIN arr \cap Nat, displayWidth * displayHeight - 1, 2 ^ 24) + 1

---------------------------------------------------------------------------
(* The emulator's fields as one record, the form the handlers work on.     *)
(* cleared and threw record what a cycle did besides changing fields: it   *)
(* called renderer.clear(), it threw the unknown-opcode Error.             *)

Machine ==
    [memory |-> memory, stack |-> stack, v |-> v, i |-> i, dt |-> dt, st |-> st,
     pc |-> pc, sp |-> sp, display |-> display, requestRender |-> requestRender,
     cleared |-> FALSE, threw |-> FALSE]

---------------------------------------------------------------------------
(* setPixel and the sprite draw. *)

\* The wrap of one coordinate: reduced by the dimension once when it is
\* greater than the dimension, raised once when negative.
WrapCoord(c, dim) ==
    IF JsGt(c, dim) THEN JsSub(c, dim)
    ELSE IF JsLt(c, 0) THEN JsAdd(c, dim)
    ELSE c

\* var location = x + (y * w), after the wrap.
PixelLocation(x, y) ==
    JsAdd(WrapCoord(x, displayWidth), JsMul(WrapCoord(y, displayHeight), displayWidth))

\* A setPixel that reports the pixel it has just lit.
SetPixelResultLit(cell) == cell = 1

\* this.display[location] ^= 1
ToggledCell(disp, location) == JsXor(ArrGet(disp, location), 1)

\* return !this.display[location]
SetPixelResult(cell) == cell = 0

\* setPixel(x, y): the display after it and the value it returns.
SetPixel(disp, x, y) ==
    LET location == PixelLocation(x, y)
        cell == ToggledCell(disp, location)
    IN  [display |-> ArrSet(disp, location, cell),
         ret |-> SetPixelResult(cell)]

\* The sprite bytes DRW reads: memory[I + cy] for cy = 0..n-1.
SpriteBytes(m, n) == [cy \in 1..n |-> MemRead(m.memory, JsAdd(m.i, cy - 1))]

\* (spr & 0x80) > 0 after cx executions of spr <<= 1.
SpriteBit(spr, cx) == JsAnd(JsShl(spr, cx), \H80) > 0

\* The coordinates DRW passes to setPixel, in the order of its two loops.
DrawCoords(m, vx, vy, n) ==
    LET spr == SpriteBytes(m, n)
        all == [k \in 1..(8 * n) |->
                  [cx |-> (k - 1) % 8, cy |-> (k - 1) \div 8]]
        set == SelectSeq(all, LAMBDA c : SpriteBit(spr[c.cy + 1], c.cx))
    IN  [k \in 1..Len(set) |-> <<JsAdd(vx, set[k].cx), JsAdd(vy, set[k].cy)>>]

\* if (this.setPixel(..)) { this.v[0xF] = 1; } for the coordinates lo..hi in
\* their order: the first half, then the second half from the first's result.
\* The flag, once 1, stays 1.
RECURSIVE DrawPixels(_, _, _, _, _)
DrawPixels(disp, flag, coords, lo, hi) ==
    IF lo > hi THEN [display |-> disp, flag |-> flag]
    ELSE IF lo = hi
    THEN LET r == SetPixel(disp, coords[lo][1], coords[lo][2])
         IN  [display |-> r.display, flag |-> IF r.ret THEN 1 ELSE flag]
    ELSE LET mid == (lo + hi) \div 2
             first == DrawPixels(disp, flag, coords, lo, mid)
         IN  IF first.flag = 1
             THEN DrawPixels(first.display, 1, coords, mid + 1, hi)
             ELSE DrawPixels(first.display, flag, coords, mid + 1, hi)

\* A DRW that does not ask for a redraw.
OpDRWQuiet(m, x, y, n) ==
    LET v0 == [m.v EXCEPT ![FlagReg] = 0]
        vx == v0[x]
        vy == v0[y]
        coords == DrawCoords(m, vx, vy, n)
        r == DrawPixels(m.display, 0, coords, 1, Len(coords))
    IN  [m EXCEPT !.v = [v0 EXCEPT ![FlagReg] = r.flag],
                  !.display = r.display]

\* Dxyn - DRW Vx, Vy, nibble
OpDRW(m, x, y, n) ==
    LET v0 == [m.v EXCEPT ![FlagReg] = 0]
        vx == v0[x]
        vy == v0[y]
        coords == DrawCoords(m, vx, vy, n)
        r == DrawPixels(m.display, 0, coords, 1, Len(coords))
    IN  [m EXCEPT !.v = [v0 EXCEPT ![FlagReg] = r.flag],
                  !.display = r.display,
                  !.requestRender = IF n > 0 THEN TRUE ELSE m.requestRender]

---------------------------------------------------------------------------
(* The instruction handlers.  Each takes the machine after this.pc += 2.   *)

\* 00E0 - CLS: this.renderer.clear()
OpCLS(m) == [m EXCEPT !.cleared = TRUE]

\* A RET that reads the stack before it decrements: this.stack[this.sp--].
OpRETPostDec(m) ==
    [m EXCEPT !.sp = m.sp - 1, !.pc = ArrGet(m.stack, m.sp)]

\* 00EE - RET: this.pc = this.stack[--this.sp]
OpRET(m) ==
    [m EXCEPT !.sp = m.sp - 1, !.pc = ArrGet(m.stack, m.sp - 1)]

\* 1nnn - JP addr
OpJP(m, addr) == [m EXCEPT !.pc = addr]

\* 2nnn - CALL addr
OpCALL(m, addr) ==
    [m EXCEPT !.stack = ArrSet(m.stack, m.sp, m.pc), !.sp = m.sp + 1, !.pc = addr]

\* 3xkk - SE Vx, byte
OpSEb(m, x, byte) ==
    IF JsStrictEq(m.v[x], byte) THEN [m EXCEPT !.pc = JsAdd(m.pc, 2)] ELSE m

\* 4xkk - SNE Vx, byte
OpSNEb(m, x, byte) ==
    IF ~JsStrictEq(m.v[x], byte) THEN [m EXCEPT !.pc = JsAdd(m.pc, 2)] ELSE m

\* 5xy0 - SE Vx, Vy
OpSEv(m, x, y) ==
    IF JsStrictEq(m.v[x], m.v[y]) THEN [m EXCEPT !.pc = JsAdd(m.pc, 2)] ELSE m

\* 6xkk - LD Vx, byte
OpLDb(m, x, byte) == [m EXCEPT !.v[x] = byte]

\* if (this.v[x] > 0xFF) { this.v[x] -= 0x100; }
WrapHigh(a) == IF JsGt(a, \HFF) THEN JsSub(a, \H100) ELSE a

\* if (this.v[x] < 0) { this.v[x] += 0x100; }
WrapLow(a) == IF JsLt(a, 0) THEN JsAdd(a, \H100) ELSE a

\* An ADD Vx, byte that reports the carry in VF.
OpADDbCarry(m, x, byte) ==
    [m EXCEPT !.v[FlagReg] = BoolNum(JsGt(JsAdd(m.v[x], byte), \HFF)),
              !.v[x] = WrapHigh(JsAdd(m.v[x], byte))]

\* 7xkk - ADD Vx, byte
OpADDb(m, x, byte) == [m EXCEPT !.v[x] = WrapHigh(JsAdd(m.v[x], byte))]

\* 8xy0 - LD Vx, Vy
OpLDv(m, x, y) == [m EXCEPT !.v[x] = m.v[y]]

\* 8xy1 - OR Vx, Vy
OpOR(m, x, y) == [m EXCEPT !.v[x] = JsOr(m.v[x], m.v[y])]

\* 8xy2 - AND Vx, Vy
OpAND(m, x, y) == [m EXCEPT !.v[x] = JsAnd(m.v[x], m.v[y])]

\* 8xy3 - XOR Vx, Vy
OpXOR(m, x, y) == [m EXCEPT !.v[x] = JsXor(m.v[x], m.v[y])]

\* 8xy4 - ADD Vx, Vy: the three statements in the code's order.
OpADDv(m, x, y) ==
    LET v1 == [m.v EXCEPT ![x] = JsAdd(m.v[x], m.v[y])]
        v2 == [v1 EXCEPT ![FlagReg] = BoolNum(JsGt(v1[x], \HFF))]
        v3 == [v2 EXCEPT ![x] = WrapHigh(v2[x])]
    IN  [m EXCEPT !.v = v3]

\* 8xy5 - SUB Vx, Vy
OpSUB(m, x, y) ==
    LET v1 == [m.v EXCEPT ![FlagReg] = BoolNum(JsGt(m.v[x], m.v[y]))]
        v2 == [v1 EXCEPT ![x] = JsSub(v1[x], v1[y])]
        v3 == [v2 EXCEPT ![x] = WrapLow(v2[x])]
    IN  [m EXCEPT !.v = v3]

\* 8xy6 - SHR Vx
OpSHR(m, x) ==
    LET v1 == [m.v EXCEPT ![FlagReg] = JsAnd(m.v[x], 1)]
        v2 == [v1 EXCEPT ![x] = JsShr(v1[x], 1)]
    IN  [m EXCEPT !.v = v2]

\* 8xy7 - SUBN Vx, Vy
OpSUBN(m, x, y) ==
    LET v1 == [m.v EXCEPT ![FlagReg] = BoolNum(JsGt(m.v[y], m.v[x]))]
        v2 == [v1 EXCEPT ![x] = JsSub(v1[y], v1[x])]
        v3 == [v2 EXCEPT ![x] = WrapLow(v2[x])]
    IN  [m EXCEPT !.v = v3]

\* 8xyE - SHL Vx: this.v[0xF] = +(this.v[x] & 0x80)
OpSHL(m, x) ==
    LET v1 == [m.v EXCEPT ![FlagReg] = JsAnd(m.v[x], \H80)]
        v2 == [v1 EXCEPT ![x] = JsShl(v1[x], 1)]
        v3 == [v2 EXCEPT ![x] = WrapHigh(v2[x])]
    IN  [m EXCEPT !.v = v3]

\* 9xy0 - SNE Vx, Vy
OpSNEv(m, x, y) ==
    IF ~JsStrictEq(m.v[x], m.v[y]) THEN [m EXCEPT !.pc = JsAdd(m.pc, 2)] ELSE m

\* Annn - LD I, addr
OpLDI(m, addr) == [m EXCEPT !.i = addr]

\* Bnnn - JP V0, addr
OpJPV0(m, addr) == [m EXCEPT !.pc = JsAdd(addr, m.v[0])]

\* Cxkk - RND Vx, byte: rnd is Math.floor(Math.random() * 0xFF)
OpRND(m, x, byte, rnd) == [m EXCEPT !.v[x] = JsAnd(rnd, byte)]

\* Fx07 - LD Vx, DT
OpLDVxDT(m, x) == [m EXCEPT !.v[x] = m.dt]

\* Fx15 - LD DT, Vx
OpLDDT(m, x) == [m EXCEPT !.dt = m.v[x]]

\* A LD ST, Vx that sets the delay timer as well.
OpLDSTBoth(m, x) == [m EXCEPT !.st = m.v[x], !.dt = m.v[x]]

\* Fx18 - LD ST, Vx
OpLDST(m, x) == [m EXCEPT !.st = m.v[x]]

\* Fx1E - ADD I, Vx
OpADDI(m, x) == [m EXCEPT !.i = JsAdd(m.i, m.v[x])]

\* Fx29 - LD F, Vx
OpLDF(m, x) == [m EXCEPT !.i = JsMul(m.v[x], 5)]

\* parseInt(v % 10) after k executions of v /= 10, for v a register value a:
\* v is then a / 10^k and v % 10 is (a % 10^(k+1)) / 10^k.
BcdDigit(a, k) ==
    IF IsNum(a) THEN JsParseInt(a % (10 ^ (k + 1)), 10 ^ k) ELSE NaN

\* A LD B, Vx whose loop stores the digits in the order ones, tens, hundreds.
OpLDBReversed(m, x) ==
    LET m3 == MemWrite(m.memory, JsAdd(m.i, 0), BcdDigit(m.v[x], 0))
        m2 == MemWrite(m3, JsAdd(m.i, 1), BcdDigit(m.v[x], 1))
        m1 == MemWrite(m2, JsAdd(m.i, 2), BcdDigit(m.v[x], 2))
    IN  [m EXCEPT !.memory = m1]

\* Fx33 - LD B, Vx: the loop runs i = 3, 2, 1.
OpLDB(m, x) ==
    LET m3 == MemWrite(m.memory, JsAdd(m.i, 2), BcdDigit(m.v[x], 0))
        m2 == MemWrite(m3, JsAdd(m.i, 1), BcdDigit(m.v[x], 1))
        m1 == MemWrite(m2, JsAdd(m.i, 0), BcdDigit(m.v[x], 2))
    IN  [m EXCEPT !.memory = m1]

\* Fx55 - LD [I], Vx: the stores for i = k..x.
RECURSIVE StoreRegs(_, _, _, _, _)
StoreRegs(mem, regs, base, k, x) ==
    IF k > x THEN mem
    ELSE StoreRegs(MemWrite(mem, JsAdd(base, k), regs[k]), regs, base, k + 1, x)

OpLDIVx(m, x) == [m EXCEPT !.memory = StoreRegs(m.memory, m.v, m.i, 0, x)]

\* Fx65 - LD Vx, [I]: this.v[i] = this.memory[this.i + i] for i = 0..x.
OpLDVxI(m, x) ==
    [m EXCEPT !.v = [k \in DOMAIN m.v |->
                        IF k <= x THEN MemRead(m.memory, JsAdd(m.i, k)) ELSE m.v[k]]]

\* throw new Error('Unknown opcode ...')
OpUnknown(m) == [m EXCEPT !.threw = TRUE]

---------------------------------------------------------------------------
(* runCycle: fetch, decode, dispatch. *)

\* var opcode = this.memory[this.pc] << 8 | this.memory[this.pc + 1]
Fetch(m) ==
    JsOr(JsShl(MemRead(m.memory, m.pc), 8), MemRead(m.memory, JsAdd(m.pc, 1)))

DecAddr(opcode) == JsAnd(opcode, \HFFF)

DecX(opcode) == JsShr(JsAnd(opcode, \HF00), 8)

DecY(opcode) == JsShr(JsAnd(opcode, \HF0), 4)

DecByte(opcode) == JsAnd(opcode, \HFF)

DecNibble(opcode) == JsAnd(opcode, \HF)

\* switch (opcode) of family 0: no default case.
Family0(m, opcode) ==
    CASE opcode = \HE0 -> OpCLS(m)
      [] opcode = \HEE -> OpRET(m)
      [] OTHER -> m

\* switch (opcode & 0xF) of family 8: no default case.
Family8(m, opcode) ==
    LET x == DecX(opcode)
        y == DecY(opcode)
        low == DecNibble(opcode)
    IN  CASE low = 0 -> OpLDv(m, x, y)
          [] low = 1 -> OpOR(m, x, y)
          [] low = 2 -> OpAND(m, x, y)
          [] low = 3 -> OpXOR(m, x, y)
          [] low = 4 -> OpADDv(m, x, y)
          [] low = 5 -> OpSUB(m, x, y)
          [] low = 6 -> OpSHR(m, x)
          [] low = 7 -> OpSUBN(m, x, y)
          [] low = \HE -> OpSHL(m, x)
          [] OTHER -> m

\* switch (opcode & 0xFF) of family E: both cases are empty, no default case.
FamilyE(m, opcode) == m

\* switch (opcode & 0xFF) of family F: no default case; Fx0A is empty.
FamilyF(m, opcode) ==
    LET x == DecX(opcode)
        low == DecByte(opcode)
    IN  CASE low = \H07 -> OpLDVxDT(m, x)
          [] low = \H0A -> m
          [] low = \H15 -> OpLDDT(m, x)
          [] low = \H18 -> OpLDST(m, x)
          [] low = \H1E -> OpADDI(m, x)
          [] low = \H29 -> OpLDF(m, x)
          [] low = \H33 -> OpLDB(m, x)
          [] low = \H55 -> OpLDIVx(m, x)
          [] low = \H65 -> OpLDVxI(m, x)
          [] OTHER -> m

\* switch (opcode & 0xF000)
Dispatch(m, opcode, rnd) ==
    LET top == JsAnd(opcode, \HF000)
        addr == DecAddr(opcode)
        x == DecX(opcode)
        y == DecY(opcode)
        byte == DecByte(opcode)
    IN  CASE top = 0 -> Family0(m, opcode)
          [] top = \H1000 -> OpJP(m, addr)
          [] top = \H2000 -> OpCALL(m, addr)
          [] top = \H3000 -> OpSEb(m, x, byte)
          [] top = \H4000 -> OpSNEb(m, x, byte)
          [] top = \H5000 -> OpSEv(m, x, y)
          [] top = \H6000 -> OpLDb(m, x, byte)
          [] top = \H7000 -> OpADDb(m, x, byte)
          [] top = \H8000 -> Family8(m, opcode)
          [] top = \H9000 -> OpSNEv(m, x, y)
          [] top = \HA000 -> OpLDI(m, addr)
          [] top = \HB000 -> OpJPV0(m, addr)
          [] top = \HC000 -> OpRND(m, x, byte, rnd)
          [] top = \HD000 -> OpDRW(m, x, y, DecNibble(opcode))
          [] top = \HE000 -> FamilyE(m, opcode)
          [] top = \HF000 -> FamilyF(m, opcode)
          [] OTHER -> OpUnknown(m)

\* runCycle on machine m; rnd is the value Math.random yields if asked.
RunCycle(m, rnd) ==
    Dispatch([m EXCEPT !.pc = JsAdd(m.pc, 2)], Fetch(m), rnd)

---------------------------------------------------------------------------
(* reset, load and the memory they produce. *)

\* The memory reset leaves: zeroed, then hexDigits copied to its start.
ResetMemory ==
    [a \in 0..(MemSize - 1) |-> IF a < Len(hexDigits) THEN hexDigits[a + 1] ELSE 0]

\* A reset that leaves the display as it is.
ResetDisplayKeep(disp) == disp

\* for (i = 0; i < this.display.length; i++) { this.display[i] = 0; }
\* Properties that are not indices (a key NaN) are not visited.
ResetDisplay(disp) ==
    LET len == ArrLength(disp)
        others == DOMAIN disp \ Nat
    IN  [k \in 0..(len - 1) |-> 0] @@ [k \in others |-> disp[k]]

\* A load whose addresses wrap around the end of memory.
LoadMemoryWrap(mem, p) ==
    [a \in DOMAIN mem |->
        IF (a - ProgramStart) % MemSize < Len(p)
        THEN ToUint8(p[((a - ProgramStart) % MemSize) + 1])
        ELSE mem[a]]

\* for (var i = 0; i < p.length; i++) { that.memory[0x200 + i] = p[i]; }
\* Every index is written at most once, and a store past 0xFFF is ignored by
\* the Uint8Array.
LoadMemory(mem, p) ==
    [a \in (ProgramStart..(ProgramStart + Len(p) - 1)) \cap DOMAIN mem |->
        ToUint8(p[a - ProgramStart + 1])] @@ mem

---------------------------------------------------------------------------
(* History records: what the most recent reset, load or cycle was. *)

NoHistory ==
    [op |-> "new", opcode |-> 0, at |-> 0, vx |-> 0, vy |-> 0, idx |-> 0,
     spr |-> <<>>, locs |-> <<>>, before |-> <<>>, err |-> "null", hasBytes |-> FALSE, bytes |-> <<>>,
     cbCalls |-> 0, cbErr |-> "null", threw |-> FALSE, cleared |-> FALSE]

IsDRW(opcode) == JsAnd(opcode, \HF000) = \HD000

IsCALL(opcode) == JsAnd(opcode, \HF000) = \H2000

IsRET(opcode) == opcode = \HEE

IsRND(opcode) == JsAnd(opcode, \HF000) = \HC000

\* The registers DRW reads its position from, after its this.v[0xF] = 0.
DrawVx(m, opcode) == [m.v EXCEPT ![FlagReg] = 0][DecX(opcode)]

DrawVy(m, opcode) == [m.v EXCEPT ![FlagReg] = 0][DecY(opcode)]

\* The display locations a DRW fetched in machine m toggles, in order.
DrawLocs(m, opcode) ==
    LET c == DrawCoords(m, DrawVx(m, opcode), DrawVy(m, opcode), DecNibble(opcode))
    IN  [k \in 1..Len(c) |-> PixelLocation(c[k][1], c[k][2])]

CycleHistory(m, res) ==
    LET opcode == Fetch(m)
    IN  [NoHistory EXCEPT
            !.op = "cycle", !.opcode = opcode, !.at = m.pc,
            !.vx = IF IsDRW(opcode) THEN DrawVx(m, opcode) ELSE 0,
            !.vy = IF IsDRW(opcode) THEN DrawVy(m, opcode) ELSE 0,
            !.idx = IF IsDRW(opcode) THEN m.i ELSE 0,
            !.spr = IF IsDRW(opcode) THEN SpriteBytes(m, DecNibble(opcode)) ELSE <<>>,
            !.locs = IF IsDRW(opcode) THEN DrawLocs(m, opcode) ELSE <<>>,
            !.before = IF IsDRW(opcode) THEN m.display ELSE <<>>,
            !.threw = res.threw, !.cleared = res.cleared]

\* The CALLs not yet returned from: pushed by CALL, popped by RET.
CycleShadow(m) ==
    LET opcode == Fetch(m)
    IN  IF IsCALL(opcode) THEN Append(shadow, [at |-> m.pc, sp |-> m.sp])
        ELSE IF IsRET(opcode) /\ shadow # <<>> THEN SubSeq(shadow, 1, Len(shadow) - 1)
        ELSE shadow

---------------------------------------------------------------------------
(* The inputs: programs the loader delivers, values Math.random yields. *)

\* The bytes of a sequence of opcodes, big-endian.
Bytes(ops) ==
    [k \in 1..(2 * Len(ops)) |->
        IF k % 2 = 1 THEN ops[(k + 1) \div 2] \div 256 ELSE ops[k \div 2] % 256]

\* One byte more than fits between 0x200 and the end of memory; no byte is 0.
LongProgram == [k \in 1..(MemSize - ProgramStart + 2) |-> 1 + (k % 255)]

\* Programs of register, memory and skip instructions, and of opcodes that
\* match no instruction.
CpuPrograms ==
    { Bytes(<< \H0123, \H8128, \HE1FF, \HF1FF, \H5121, \H0000 >>),
      Bytes(<< \H60FF, \H7002, \H6180, \H810E, \H8014, \H8016 >>),
      Bytes(<< \H6005, \H7003, \H61FF, \H8015, \H8017, \H8F14 >>),
      Bytes(<< \HAFFF, \HF165, \H7105, \H8014, \HF115, \HD015 >>),
      Bytes(<< \HC0FF, \HC10F, \H8014, \H8011, \H8012, \H8013 >>),
      Bytes(<< \H60EA, \HA300, \HF033, \HF155, \HF015, \HF107 >>),
      Bytes(<< \H6009, \HF029, \HF01E, \HF018, \HF00A, \HE09E >>),
      Bytes(<< \H3000, \H0000, \H4000, \H5010, \H9010, \HB204 >>) }

\* Programs of CALL and RET.
StackPrograms ==
    { Bytes(<< \H2206, \H1202, \H0000, \H220A, \H00EE, \H00EE >>),
      Bytes(<< \H2204, \H1202, \H2208, \H00EE, \H00EE >>),
      Bytes(<< \H2202, \H2204, \H00EE, \H00EE, \H00EE >>),
      Bytes(<< \H2200 >>),
      Bytes(<< \H00EE >>) }

\* Programs that draw.
DrawPrograms ==
    { Bytes(<< \HD005, \HD005, \HD005, \H00E0, \HD005 >>),
      Bytes(<< \H6120, \HD011, \HD011, \H603C, \HD015, \HD015 >>),
      Bytes(<< \H6F05, \HDF05, \HDF05, \HA050, \HD000, \HD000 >>),
      Bytes(<< \H60FA, \HD005, \HD005, \HF015, \HF018 >>),
      Bytes(<< \HAFFF, \HF165, \HA000, \HD105, \HD105 >>) }

\* Programs for the loader: short ones and one too long for memory.
LoadPrograms ==
    { Bytes(<< \HA000, \HD005 >>),
      LongProgram }

\* Programs for the periodic driver.
DriverPrograms ==
    { Bytes(<< \H6005, \H7003, \H1FFF >>),
      Bytes(<< \HD005, \HD005 >>) }

\* The programs a failing loader hands over together with its error.
ErrPrograms == { Bytes(<< \H6005, \H7003 >>) }

\* Values of Math.floor(Math.random() * 0xFF), which lie in 0..254.
RandomBytes == {0, \H7F, \HFE}

---------------------------------------------------------------------------
(* The state after new Chip8(opts): the constructor ends in reset(). *)

Init ==
    /\ memory = ResetMemory
    /\ stack = <<>>
    /\ v = [k \in 0..(NumRegs - 1) |-> 0]
    /\ i = 0
    /\ dt = 0
    /\ st = 0
    /\ pc = ProgramStart
    /\ sp = 0
    /\ running = FALSE
    /\ display = [k \in 0..(displayWidth * displayHeight - 1) |-> 0]
    /\ requestRender = FALSE
    /\ loop = 0
    /\ timers = {}
    /\ crashed = FALSE
    /\ cycles = 0
    /\ loads = 0
    /\ lastCall = "new"
    /\ last = NoHistory
    /\ prev = NoHistory
    /\ shadow = <<>>
    /\ rendered = FALSE

---------------------------------------------------------------------------
(* The operations. *)

\* Chip8.prototype.reset
Reset ==
    /\ ~crashed
    /\ memory' = ResetMemory
    /\ v' = [k \in DOMAIN v |-> 0]
    /\ i' = 0
    /\ dt' = 0
    /\ st' = 0
    /\ pc' = ProgramStart
    /\ sp' = 0
    /\ display' = ResetDisplay(display)
    /\ running' = FALSE
    /\ lastCall' = "reset"
    /\ rendered' = FALSE
    /\ last' = [NoHistory EXCEPT !.op = "reset", !.before = display]
    /\ prev' = NoHistory
    /\ shadow' = <<>>
    /\ UNCHANGED <<stack, requestRender, loop, timers, crashed, cycles, loads>>

\* Chip8.prototype.load, at the moment the loader completes with (err, p);
\* hasBytes is false when p is undefined, and then p.length throws a
\* TypeError before cb is reached.
Load(err, hasBytes, p) ==
    /\ ~crashed
    /\ loads < MaxLoads
    /\ loads' = loads + 1
    /\ memory' = IF hasBytes THEN LoadMemory(memory, p) ELSE memory
    /\ lastCall' = "load"
    /\ rendered' = FALSE
    /\ last' = [NoHistory EXCEPT
                  !.op = "load", !.err = err, !.hasBytes = hasBytes, !.bytes = p,
                  !.cbCalls = IF hasBytes THEN 1 ELSE 0,
                  !.cbErr = IF hasBytes THEN err ELSE "null",
                  !.threw = ~hasBytes]
    /\ prev' = NoHistory
    /\ UNCHANGED <<stack, v, i, dt, st, pc, sp, running, display, requestRender,
                   loop, timers, crashed, cycles, shadow>>

\* Chip8.prototype.start: the new interval's handle replaces this.loop.
Start(maxStarts) ==
    /\ ~crashed
    /\ loop < maxStarts
    /\ running' = TRUE
    /\ loop' = loop + 1
    /\ timers' = timers \cup {loop + 1}
    /\ lastCall' = "start"
    /\ rendered' = FALSE
    /\ UNCHANGED <<memory, stack, v, i, dt, st, pc, sp, display, requestRender,
                   crashed, cycles, loads, last, prev, shadow>>

\* Chip8.prototype.stop: clearInterval(this.loop)
Stop ==
    /\ ~crashed
    /\ timers' = timers \ {loop}
    /\ lastCall' = "stop"
    /\ rendered' = FALSE
    /\ UNCHANGED <<memory, stack, v, i, dt, st, pc, sp, running, display,
                   requestRender, loop, crashed, cycles, loads, last, prev, shadow>>

\* The callback of interval t, with runCycle's effect when this.running.  An
\* Error thrown by runCycle leaves the callback before the render check.
TickRun(rnd) ==
    \E res \in {RunCycle(Machine, rnd)} :
        /\ memory' = res.memory
        /\ stack' = res.stack
        /\ v' = res.v
        /\ i' = res.i
        /\ dt' = res.dt
        /\ st' = res.st
        /\ pc' = res.pc
        /\ sp' = res.sp
        /\ display' = res.display
        /\ requestRender' = IF res.threw THEN res.requestRender ELSE FALSE
        /\ rendered' = (~res.threw /\ res.requestRender)
        /\ crashed' = res.threw
        /\ cycles' = cycles + 1
        /\ last' = CycleHistory(Machine, res)
        /\ prev' = last
        /\ shadow' = CycleShadow(Machine)
        /\ UNCHANGED <<running, loop, timers, loads, lastCall>>

Tick(t) ==
    /\ ~crashed
    /\ t \in timers
    /\ IF running
       THEN /\ cycles < MaxCycles
            /\ \E rnd \in (IF IsRND(Fetch(Machine)) THEN RandomBytes ELSE {0}) :
                  TickRun(rnd)
       ELSE /\ requestRender' = FALSE
            /\ rendered' = requestRender
            /\ UNCHANGED <<memory, stack, v, i, dt, st, pc, sp, running, display,
                           loop, timers, crashed, cycles, loads, lastCall, last,
                           prev, shadow>>

\* What a loader hands to the callback of load: (null, p) or (err, p), and
\* (err, undefined).
Succeeds(progs) == {[err |-> "null", hasBytes |-> TRUE, p |-> p] : p \in progs}

Fails(progs) ==
    {[err |-> "error", hasBytes |-> TRUE, p |-> p] : p \in progs}
        \cup {[err |-> "error", hasBytes |-> FALSE, p |-> << >>]}

\* The host's calls and the interval callbacks.  restart says whether the host
\* calls start() while an interval is installed.
NextWith(results, maxStarts, restart) ==
    \/ Reset
    \/ \E r \in results : Load(r.err, r.hasBytes, r.p)
    \/ (restart \/ timers = {}) /\ Start(maxStarts)
    \/ Stop
    \/ \E t \in timers : Tick(t)

\* The periodic driver under several start() calls.
Next == NextWith(Succeeds(DriverPrograms) \cup Fails(ErrPrograms), MaxStarts, TRUE)

Spec == Init /\ [][Next]_vars

\* The instruction set, the stack, the display and the loader, each under
\* its own programs and a host that starts the driver only when none is
\* installed.
SpecCpu == Init /\ [][NextWith(Succeeds(CpuPrograms), MaxStartsRun, FALSE)]_vars

SpecStack == Init /\ [][NextWith(Succeeds(StackPrograms), MaxStartsRun, FALSE)]_vars

SpecDraw == Init /\ [][NextWith(Succeeds(DrawPrograms), MaxStartsRun, FALSE)]_vars

SpecLoad ==
    Init /\ [][NextWith(Succeeds(LoadPrograms) \cup Fails(ErrPrograms),
                        MaxStartsRun, FALSE)]_vars

\* Single instructions, each run on registers drawn from sample values:
\* the machine after reset() and load() of the instruction, once a program
\* has left the values in V0, V1, VF and I and the driver is started.
AluOps ==
    { \HF033, \HF133, \H7003, \H70FF, \H7F01, \H801E, \H8F0E,
      \H8014, \H8F14, \H80F4, \H8FF4, \H8004 }

ByteSamples == {0, 1, 9, 10, 99, 100, 127, 128, 200, 234, 254, 255}

OperandSamples == {1, 128, 255}

FlagSamples == {0, 200}

IndexSamples == {\H300, \HFFD}

AluPrograms == {Bytes(<< op >>) : op \in AluOps} \cup {Bytes(<< \H6005, \H7003 >>)}

InitAlu ==
    \E p \in AluPrograms, a \in ByteSamples, b \in OperandSamples,
       f \in FlagSamples, idx \in IndexSamples :
        /\ memory = LoadMemory(ResetMemory, p)
        /\ stack = <<>>
        /\ v = [k \in 0..(NumRegs - 1) |->
                  IF k = 0 THEN a ELSE IF k = 1 THEN b ELSE IF k = FlagReg THEN f ELSE 0]
        /\ i = idx
        /\ dt = 0
        /\ st = 0
        /\ pc = ProgramStart
        /\ sp = 0
        /\ running = TRUE
        /\ display = [k \in 0..(displayWidth * displayHeight - 1) |-> 0]
        /\ requestRender = FALSE
        /\ loop = 1
        /\ timers = {1}
        /\ crashed = FALSE
        /\ cycles = 0
        /\ loads = 1
        /\ lastCall = "start"
        /\ last = [NoHistory EXCEPT !.op = "load", !.hasBytes = TRUE,
                                    !.bytes = p, !.cbCalls = 1]
        /\ prev = NoHistory
        /\ shadow = <<>>
        /\ rendered = FALSE

NextAlu == \E t \in timers : Tick(t)

SpecAlu == InitAlu /\ [][NextAlu]_vars

---------------------------------------------------------------------------
(* Properties. *)

\* The rows of the instruction table: the opcodes that are instructions.
InstructionTable(opcode) ==
    LET top == opcode \div 4096
        low == opcode % 256
        nib == opcode % 16
    IN  \/ opcode \in {\H00E0, \H00EE}
        \/ top \in {1, 2, 3, 4, 6, 7, \HA, \HB, \HC, \HD}
        \/ top \in {5, 9} /\ nib = 0
        \/ top = 8 /\ nib \in {0, 1, 2, 3, 4, 5, 6, 7, \HE}
        \/ top = \HE /\ low \in {\H9E, \HA1}
        \/ top = \HF /\ low \in {\H07, \H0A, \H15, \H18, \H1E, \H29, \H33, \H55, \H65}

\* C1: a cycle on an opcode that matches no row of the instruction table
\* raises the unknown-opcode error and execution stops.
C1_UnknownOpcodeFatal ==
    (last.op = "cycle" /\ ~InstructionTable(last.opcode)) => (last.threw /\ crashed)

\* C2: after stop() has been called, and until the host calls the emulator
\* again, the periodic driver invokes runCycle no more.
C2_NoCycleAfterStop == [][lastCall = "stop" => cycles' = cycles]_vars

\* The cells of the display: its indexed elements.
DisplayCells == {k \in DOMAIN display : IsNum(k)}

\* C3: after reset(), memory holds the font table in bytes 0..79 (digit d at
\* 5*d .. 5*d+4) and 0 elsewhere, PC = 0x200, SP = 0, I = 0, every V[i] = 0,
\* DT = ST = 0, and every display cell is 0.
C3_ResetPostcondition ==
    last.op = "reset" =>
        /\ \A d \in 0..15 : \A r \in 0..4 : memory[5 * d + r] = hexDigits[5 * d + r + 1]
        /\ \A a \in 80..(MemSize - 1) : memory[a] = 0
        /\ pc = \H200
        /\ sp = 0
        /\ i = 0
        /\ \A k \in 0..15 : v[k] = 0
        /\ dt = 0
        /\ st = 0
        /\ \A k \in DisplayCells : display[k] = 0

\* A reset reached with lit pixels and a register set: there was something
\* for it to clear.
C3_Witness ==
    /\ last.op = "reset"
    /\ cycles > 0
    /\ \E k \in DOMAIN last.before : last.before[k] = 1

\* C4: every register V[0..15] holds an integer in 0..255.
C4_RegistersAreBytes ==
    \A k \in 0..15 : IsNum(v[k]) /\ v[k] >= 0 /\ v[k] <= 255

\* The CALL whose return is pending on top of the call stack.
PendingCall == shadow[Len(shadow)]

\* C5: a RET that pairs with a CALL (made with SP < 16 at the time) sets PC
\* to the address of the instruction after that CALL and SP to its value
\* just before that CALL; nested pairs unwind last-in first-out.
C5_CallRetRoundTrip ==
    [][(/\ cycles' = cycles + 1
        /\ last'.op = "cycle"
        /\ IsRET(last'.opcode)
        /\ shadow # <<>>
        /\ PendingCall.sp < StackSize)
       => (pc' = PendingCall.at + 2 /\ sp' = PendingCall.sp)]_vars

\* A RET has just returned from the inner of two nested calls.
C5_Witness ==
    /\ last.op = "cycle"
    /\ IsRET(last.opcode)
    /\ prev.op = "cycle"
    /\ IsCALL(prev.opcode)
    /\ Len(shadow) >= 1
    /\ pc = prev.at + 2

\* The last two cycles executed the same DRW: same opcode, same I, same
\* sprite bytes, same register values, both positions in 0..255.
SameDrawTwice ==
    /\ last.op = "cycle"
    /\ prev.op = "cycle"
    /\ IsDRW(last.opcode)
    /\ last.opcode = prev.opcode
    /\ last.idx = prev.idx
    /\ last.spr = prev.spr
    /\ last.vx = prev.vx
    /\ last.vy = prev.vy
    /\ last.vx \in 0..255
    /\ last.vy \in 0..255

\* C6: executing the same DRW twice in succession leaves the display buffer
\* in exactly the state it had before the first of the two.
C6_DoubleDrawRestores == SameDrawTwice => display = prev.before

\* C7 (as stated): whenever the same non-empty sprite is drawn twice in
\* succession, V[0xF] = 1 after the second draw.
C7_SecondDrawCollides == SameDrawTwice => v[FlagReg] = 1

\* The draw recorded in h turned on at least one pixel that was off.
TurnedOn(h) == \E k \in 1..Len(h.locs) : ArrGet(h.before, h.locs[k]) # 1

\* The draw recorded in h met no pixel that was already set.
MetNoSetPixel(h) == \A k \in 1..Len(h.locs) : ArrGet(h.before, h.locs[k]) # 1

\* The pixels of the draw recorded in h are pairwise distinct cells.
DistinctPixels(h) ==
    \A j, k \in 1..Len(h.locs) : h.locs[j] = h.locs[k] => j = k

\* C7 (amended): the second of two identical successive draws sets
\* V[0xF] = 1 when the first one turned at least one pixel on; a draw whose
\* pixels are distinct cells none of which was set leaves V[0xF] = 0.
C7_FlagAmended ==
    /\ (SameDrawTwice /\ TurnedOn(prev)) => v[FlagReg] = 1
    /\ (/\ last.op = "cycle"
        /\ IsDRW(last.opcode)
        /\ DistinctPixels(last)
        /\ MetNoSetPixel(last)) => v[FlagReg] = 0

\* The second of two identical draws has erased what the first one lit.
C7_Witness ==
    /\ SameDrawTwice
    /\ TurnedOn(prev)
    /\ Len(last.locs) > 0
    /\ v[FlagReg] = 1

\* C8: after CLS every cell of the display buffer is 0.
C8_ClsZeroesBuffer ==
    (last.op = "cycle" /\ last.opcode = \H00E0) =>
        \A k \in DisplayCells : display[k] = 0

\* C9: a successful load of N bytes sets memory[0x200 + k] to byte k for
\* every k with 0x200 + k <= 0xFFF, drops the bytes past 0xFFF, and changes
\* no other memory cell, no register, no timer, not the stack nor the display.
C9_LoadFrame ==
    [][(loads' = loads + 1 /\ last'.err = "null" /\ last'.hasBytes)
       => LET written == ProgramStart + Len(last'.bytes)
          IN  /\ DOMAIN memory' = 0..(MemSize - 1)
              /\ \A a \in 0..(ProgramStart - 1) : memory'[a] = memory[a]
              /\ \A a \in ProgramStart..(MemSize - 1) :
                    a < written => memory'[a] = last'.bytes[a - ProgramStart + 1]
              /\ \A a \in written..(MemSize - 1) : memory'[a] = memory[a]
              /\ UNCHANGED << stack, v, i, dt, st, pc, sp, display >>]_vars

\* A program longer than the room above 0x200 has been loaded into a
\* machine that had already executed cycles.
C9_Witness ==
    /\ last.op = "load"
    /\ last.err = "null"
    /\ cycles > 0
    /\ Len(last.bytes) > MemSize - ProgramStart
    /\ memory[MemSize - 1] = last.bytes[MemSize - ProgramStart]

\* C10: when the loader reports an error, the callback is invoked with that
\* error and the machine (memory, registers, timers, stack, display) is
\* left unchanged.
C10_LoadErrorClean ==
    [][(loads' = loads + 1 /\ last'.err = "error")
       => (/\ last'.cbCalls = 1
           /\ last'.cbErr = "error"
           /\ UNCHANGED << memory, stack, v, i, dt, st, pc, sp, display >>)]_vars

\* C11: the stack pointer SP is in the range [0,16) in every reachable
\* state, so every slot RET reads or CALL writes has an index in [0,16).
C11_StackPointerInRange == sp \in 0..(StackSize - 1)

\* The cycle being taken executes an opcode of the given pattern.
Executes(mask, pattern) ==
    /\ cycles' = cycles + 1
    /\ last'.op = "cycle"
    /\ JsAnd(last'.opcode, mask) = pattern

\* The register operand x of the opcode the cycle being taken executes.
OperandX == DecX(last'.opcode)

\* The register operand y of the opcode the cycle being taken executes.
OperandY == DecY(last'.opcode)

\* C12: LD B,Vx with V[x] in 0..255 and I + 2 <= 0xFFF writes the hundreds,
\* tens and ones digits of V[x] to memory[I], memory[I+1] and memory[I+2],
\* and changes no other memory byte and no register other than PC.
C12_BcdDigits ==
    [][(Executes(\HF0FF, \HF033) /\ v[OperandX] \in 0..255 /\ i \in 0..(MemSize - 3))
       => (/\ memory'[i] = v[OperandX] \div 100
           /\ memory'[i + 1] = (v[OperandX] \div 10) % 10
           /\ memory'[i + 2] = v[OperandX] % 10
           /\ 100 * memory'[i] + 10 * memory'[i + 1] + memory'[i + 2] = v[OperandX]
           /\ \A a \in (0..(MemSize - 1)) \ {i, i + 1, i + 2} : memory'[a] = memory[a]
           /\ pc' = pc + 2
           /\ UNCHANGED << v, i, dt, st, sp, stack, display >>)]_vars

\* LD B,V0 has stored 2, 3, 4 for V0 = 234 at the last three bytes of memory.
C12_Witness ==
    /\ last.op = "cycle"
    /\ last.opcode = \HF033
    /\ v[0] = 234
    /\ i = MemSize - 3
    /\ memory[i] = 2
    /\ memory[i + 1] = 3
    /\ memory[i + 2] = 4

\* C13: ADD Vx,kk with V[x] in 0..255 leaves V[x] = (old V[x] + kk) mod 256,
\* changes no other register and advances PC by 2; so 0x6005, 0x7003 at 0x200
\* leaves V[0] = 8 and PC = 0x204.
C13_AddByte ==
    [][/\ (Executes(\HF000, \H7000) /\ v[OperandX] \in 0..255)
            => (/\ v' = [v EXCEPT ![OperandX] =
                                (v[OperandX] + DecByte(last'.opcode)) % 256]
                /\ pc' = pc + 2
                /\ UNCHANGED << i, dt, st, sp, stack, memory, display >>)
       /\ (/\ Executes(\HFFFF, \H7003)
           /\ last.op = "cycle"
           /\ last.opcode = \H6005
           /\ last.at = ProgramStart
           /\ pc = ProgramStart + 2)
            => (v'[0] = 8 /\ pc' = \H204)]_vars

\* ADD V0,0xFF has wrapped 200 + 255 around to 199.
C13_Witness ==
    /\ last.op = "cycle"
    /\ last.opcode = \H70FF
    /\ cycles = 1
    /\ v[0] = 199
    /\ v[FlagReg] = 200
    /\ pc = ProgramStart + 2

\* C14: every pixel toggled by a DRW whose coordinates reach at most one
\* width/height past the edge (a coordinate equal to 64 or 32 included) has a
\* buffer index in [0,2048), the grid of 64*32 cells.
C14_PixelsInGrid ==
    (/\ last.op = "cycle"
     /\ IsDRW(last.opcode)
     /\ last.vx \in 0..displayWidth
     /\ last.vy \in 0..displayHeight)
    => \A k \in 1..Len(last.locs) :
          last.locs[k] \in 0..(displayWidth * displayHeight - 1)

\* C15: SHL Vx with V[x] in 0..255 (here for x other than 0xF) sets V[0xF]
\* to 1 when bit 7 of the old V[x] is set and to 0 otherwise, and V[x] to
\* (old V[x] * 2) mod 256.
C15_ShiftLeft ==
    [][(Executes(\HF00F, \H800E) /\ OperandX # FlagReg /\ v[OperandX] \in 0..255)
       => (/\ v'[FlagReg] = IF v[OperandX] >= 128 THEN 1 ELSE 0
           /\ v'[OperandX] = (v[OperandX] * 2) % 256)]_vars

\* The sum ADD Vx,Vy computes from the registers before the cycle.
AddSum == v[OperandX] + v[OperandY]

\* C16: ADD Vx,Vy, for every x and y (0xF included), ends in the state got by
\* sum = old V[x] + old V[y], then V[0xF] := (1 if sum > 255 else 0), then
\* V[x] := sum mod 256.
C16_AddRegisters ==
    [][(/\ Executes(\HF00F, \H8004)
        /\ v[OperandX] \in 0..255
        /\ v[OperandY] \in 0..255)
       => v' = [[v EXCEPT ![FlagReg] = IF AddSum > 255 THEN 1 ELSE 0]
                   EXCEPT ![OperandX] = AddSum % 256]]_vars

\* C17: DT changes only in a cycle that executes LD DT,Vx or in reset(), ST
\* only in a cycle that executes LD ST,Vx or in reset() (no other instruction
\* and no tick of the driver modifies them), and LD Vx,DT reads DT back.
C17_TimersFrame ==
    [][/\ dt' # dt => (Executes(\HF0FF, \HF015) \/ Reset)
       /\ st' # st => (Executes(\HF0FF, \HF018) \/ Reset)
       /\ Executes(\HF0FF, \HF015) => dt' = v[OperandX]
       /\ Executes(\HF0FF, \HF018) => st' = v[OperandX]
       /\ Executes(\HF0FF, \HF007) => (v'[OperandX] = dt /\ dt' = dt)]_vars

\* LD V1,DT has read back the 234 that LD DT,V0 wrote a cycle earlier.
C17_Witness ==
    /\ last.op = "cycle"
    /\ last.opcode = \HF107
    /\ prev.op = "cycle"
    /\ prev.opcode = \HF015
    /\ dt = 234
    /\ v[1] = 234

\* C18 (as stated): every executed DRW marks that a redraw is needed, so the
\* tick that executes it calls renderer.render.
C18_EveryDrawRenders == [][Executes(\HF000, \HD000) => rendered']_vars

\* C18 (amended): a DRW with n > 0 marks that a redraw is needed and the tick
\* that executes it calls renderer.render and clears the flag; render is
\* called in no other step, and the flag is clear between ticks.
C18_RenderOnDraw ==
    [][/\ (Executes(\HF000, \HD000) /\ DecNibble(last'.opcode) > 0) => rendered'
       /\ rendered' => (Executes(\HF000, \HD000) /\ DecNibble(last'.opcode) > 0)
       /\ ~requestRender']_vars

\* The tick that executed a DRW with n > 0 has called render and cleared the
\* flag.
C18_Witness ==
    /\ last.op = "cycle"
    /\ IsDRW(last.opcode)
    /\ DecNibble(last.opcode) > 0
    /\ rendered
    /\ ~requestRender

\* C19: in every reachable state PC is a defined address with
\* PC + 1 <= 0xFFF, so a fetch reads both opcode bytes from inside memory.
C19_ProgramCounterInRange == IsNum(pc) /\ pc >= 0 /\ pc + 1 <= MemSize - 1

\* C20: for every sequence of start(), stop() and reset() calls at most one
\* periodic driver is installed at any time.
C20_SingleDriver == Cardinality(timers) <= 1

=============================================================================
